---- MODULE Spec2Model ----
(***************************************************************************)
(* Model of gcfg's value-assignment engine, set.go: the function set and   *)
(* everything it calls (fieldFold, newTag, the setters chain, newValue,    *)
(* setExtraDataInSection), run against a concrete schema object.           *)
(*                                                                         *)
(* Go strings are sequences of one-rune strings (<<"f","o","o">>), so that *)
(* folding, tag parsing, key concatenation and number parsing are computed *)
(* rune by rune as the code computes them.                                 *)
(***************************************************************************)
EXTENDS Integers, Sequences, FiniteSets, TLC

VARIABLES
    cfgKind,    \* shape of the cfg argument: "ptrStruct" or something else
    cfg,        \* the schema object *cfg: a record of its fields' values
    objs,       \* heap of subsection instances allocated by newValue (address = index)
    collector,  \* the warnings.Collector the calls share
    last,       \* the most recent set call: its arguments, what it returned, and
                \* whether it was silent (returned nil and changed nothing)
    panicked,   \* a set call panicked: the pass is over
    calls       \* number of set calls made

vars == <<cfgKind, cfg, objs, collector, last, panicked, calls>>

(***************************************************************************)
(* Bounds.                                                                 *)
(***************************************************************************)
MaxCalls == 3

(***************************************************************************)
(* Strings.                                                                *)
(***************************************************************************)
UpperChars == <<"A","B","C","D","E","F","G","H","I","J","K","L","M",
                "N","O","P","Q","R","S","T","U","V","W","X","Y","Z">>
LowerChars == <<"a","b","c","d","e","f","g","h","i","j","k","l","m",
                "n","o","p","q","r","s","t","u","v","w","x","y","z">>

\* A letter with no case (the rune U+6587), as unicode.IsLetter && !IsLower && !IsUpper.
CaselessLetters == {"U+6587"}

LowerOf == [c \in {UpperChars[i] : i \in 1..26} |->
                LowerChars[CHOOSE i \in 1..26 : UpperChars[i] = c]]

ToLower(c) == IF c \in DOMAIN LowerOf THEN LowerOf[c] ELSE c

\* strings.EqualFold
EqualFold(a, b) ==
    /\ Len(a) = Len(b)
    /\ \A i \in 1..Len(a) : ToLower(a[i]) = ToLower(b[i])

\* strings.Replace(s, old, new, -1) for one-rune old and new
Replace(s, old, new) == [i \in 1..Len(s) |-> IF s[i] = old THEN new ELSE s[i]]

\* strings.HasPrefix
HasPrefix(s, p) == Len(s) >= Len(p) /\ SubSeq(s, 1, Len(p)) = p

\* strings.ContainsAny
ContainsAny(s, chars) == \E i \in 1..Len(s) : s[i] \in chars

\* strings.Split(s, sep) for a one-rune sep: the segments, in order
RECURSIVE Split(_, _)
Split(s, sep) ==
    IF \A i \in 1..Len(s) : s[i] # sep
    THEN <<s>>
    ELSE LET k == CHOOSE i \in 1..Len(s) : s[i] = sep /\ \A j \in 1..(i-1) : s[j] # sep
         IN <<SubSeq(s, 1, k-1)>> \o Split(SubSeq(s, k+1, Len(s)), sep)

(***************************************************************************)
(* Field tags.                                                             *)
(***************************************************************************)
RECURSIVE lastIntMode(_, _)
lastIntMode(segs, acc) ==
    IF segs = <<>> THEN acc
    ELSE lastIntMode(Tail(segs),
                     IF HasPrefix(Head(segs), <<"i","n","t","=">>)
                     THEN SubSeq(Head(segs), 5, Len(Head(segs)))
                     ELSE acc)

newTag(ts) ==
    LET s == Split(ts, ",")
    IN [ident |-> s[1], intMode |-> lastIntMode(Tail(s), <<>>)]

(***************************************************************************)
(* Types (reflect.Type): kind, name ("" for an unnamed type), and the      *)
(* element / key / fields the kind has.                                    *)
(***************************************************************************)
TString  == [kind |-> "string",  name |-> "string"]
TBool    == [kind |-> "bool",    name |-> "bool"]
TInt     == [kind |-> "int",     name |-> "int"]
TInt8    == [kind |-> "int8",    name |-> "int8"]
TUint    == [kind |-> "uint",    name |-> "uint"]
TUintptr == [kind |-> "uintptr", name |-> "uintptr"]
TFloat64 == [kind |-> "float64", name |-> "float64"]
TBigInt  == [kind |-> "struct",  name |-> "big.Int", fields |-> <<>>]
\* type Port int8
TPort    == [kind |-> "int8",    name |-> "Port"]
\* type Level string, with func (l *Level) UnmarshalText([]byte) error
TLevel   == [kind |-> "string",  name |-> "Level"]

TSlice(e)  == [kind |-> "slice", name |-> "", elem |-> e]
TPtr(e)    == [kind |-> "ptr",   name |-> "", elem |-> e]
TMap(k, e) == [kind |-> "map",   name |-> "", key |-> k, elem |-> e]
TStruct(n, fs) == [kind |-> "struct", name |-> n, fields |-> fs]

\* A struct field: its Go name (as a record key and rune by rune), its gcfg tag
\* (the raw string, and as newTag parses it), its type, and whether it is
\* exported (so CanSet).
Fld(n, chars, tag, t) ==
    [name |-> n, chars |-> chars, tag |-> tag, parsed |-> newTag(tag), type |-> t,
     exported |-> TRUE]
Unexported(n, chars, tag, t) ==
    [name |-> n, chars |-> chars, tag |-> tag, parsed |-> newTag(tag), type |-> t,
     exported |-> FALSE]

(***************************************************************************)
(* The schema object the calls are run against.                            *)
(*                                                                         *)
(*   type SubT struct { Name string; Ports []int8; Opt *int8 }             *)
(*   type Cfg struct {                                                     *)
(*     Core struct { Editor string; Flag bool; Alias string                *)
(*                   Other string `gcfg:"alias"`; hidden string            *)
(*                   X<U+6587> string }                                    *)
(*     Nums struct { I8 int8; Plat int; U uint; Up uintptr; Big big.Int    *)
(*                   Oct8 int8 `gcfg:",int=o"`; P Port }                   *)
(*     Multi struct { Vals []int8; PVals *[]int8; Opt *int8                *)
(*                    Named IntList }                                      *)
(*     Conv struct { Lvl Level; Ratio float64 }                            *)
(*     Default_Sub SubT                                                    *)
(*     Sub map[string]*SubT                                                *)
(*     Default_Odd OddT        (type OddT struct { hidden string })        *)
(*     Odd map[string]*OddT                                                *)
(*     Flat map[string]string                                              *)
(*     BadMap map[string]int8                                              *)
(*     Scalar int8                                                         *)
(*     Extra struct { Known string                                         *)
(*                    Rest map[string]string `gcfg:"extra_values"` }       *)
(*     Extra2 struct { Rest map[string][]string `gcfg:"extra_values"` }    *)
(*     BadExtra struct { Rest int8 `gcfg:"extra_values"` }                 *)
(*   }                                                                     *)
(***************************************************************************)
NoTag == <<>>
ExtraValuesTag == <<"e","x","t","r","a","_","v","a","l","u","e","s">>

\* type IntList []int8
TIntList == [kind |-> "slice", name |-> "IntList", elem |-> TInt8]

SubT ==
    TStruct("SubT", <<
        Fld("Name",  <<"N","a","m","e">>,  NoTag, TString),
        Fld("Ports", <<"P","o","r","t","s">>, NoTag, TSlice(TInt8)),
        Fld("Opt",   <<"O","p","t">>,   NoTag, TPtr(TInt8)) >>)

OddT ==
    TStruct("OddT", <<
        Unexported("hidden", <<"h","i","d","d","e","n">>, NoTag, TString) >>)

CoreT ==
    TStruct("", <<
        Fld("Editor", <<"E","d","i","t","o","r">>, NoTag, TString),
        Fld("Flag",   <<"F","l","a","g">>,   NoTag, TBool),
        Fld("Alias",  <<"A","l","i","a","s">>,  NoTag, TString),
        Fld("Other",  <<"O","t","h","e","r">>,  <<"a","l","i","a","s">>, TString),
        Unexported("hidden", <<"h","i","d","d","e","n">>, NoTag, TString),
        Fld("XU6587", <<"X","U+6587">>, NoTag, TString) >>)

NumsT ==
    TStruct("", <<
        Fld("I8",   <<"I","8">>,   NoTag, TInt8),
        Fld("Plat", <<"P","l","a","t">>, NoTag, TInt),
        Fld("U",    <<"U">>,    NoTag, TUint),
        Fld("Up",   <<"U","p">>,   NoTag, TUintptr),
        Fld("Big",  <<"B","i","g">>,  NoTag, TBigInt),
        Fld("Oct8", <<"O","c","t","8">>, <<",","i","n","t","=","o">>, TInt8),
        Fld("P",    <<"P">>,    NoTag, TPort) >>)

MultiT ==
    TStruct("", <<
        Fld("Vals",  <<"V","a","l","s">>,  NoTag, TSlice(TInt8)),
        Fld("PVals", <<"P","V","a","l","s">>, NoTag, TPtr(TSlice(TInt8))),
        Fld("Opt",   <<"O","p","t">>,   NoTag, TPtr(TInt8)),
        Fld("Named", <<"N","a","m","e","d">>, NoTag, TIntList) >>)

ConvT ==
    TStruct("", <<
        Fld("Lvl",   <<"L","v","l">>,   NoTag, TLevel),
        Fld("Ratio", <<"R","a","t","i","o">>, NoTag, TFloat64) >>)

ExtraT ==
    TStruct("", <<
        Fld("Known", <<"K","n","o","w","n">>, NoTag, TString),
        Fld("Rest",  <<"R","e","s","t">>,  ExtraValuesTag, TMap(TString, TString)) >>)

Extra2T ==
    TStruct("", <<
        Fld("Rest",  <<"R","e","s","t">>,  ExtraValuesTag, TMap(TString, TSlice(TString))) >>)

BadExtraT ==
    TStruct("", <<
        Fld("Rest",  <<"R","e","s","t">>,  ExtraValuesTag, TInt8) >>)

CfgT ==
    TStruct("Cfg", <<
        Fld("Core",        <<"C","o","r","e">>,        NoTag, CoreT),
        Fld("Nums",        <<"N","u","m","s">>,        NoTag, NumsT),
        Fld("Multi",       <<"M","u","l","t","i">>,       NoTag, MultiT),
        Fld("Conv",        <<"C","o","n","v">>,        NoTag, ConvT),
        Fld("Default_Sub", <<"D","e","f","a","u","l","t","_","S","u","b">>, NoTag, SubT),
        Fld("Sub",         <<"S","u","b">>,         NoTag, TMap(TString, TPtr(SubT))),
        Fld("Default_Odd", <<"D","e","f","a","u","l","t","_","O","d","d">>, NoTag, OddT),
        Fld("Odd",         <<"O","d","d">>,         NoTag, TMap(TString, TPtr(OddT))),
        Fld("Flat",        <<"F","l","a","t">>,        NoTag, TMap(TString, TString)),
        Fld("BadMap",      <<"B","a","d","M","a","p">>,      NoTag, TMap(TString, TInt8)),
        Fld("Scalar",      <<"S","c","a","l","a","r">>,      NoTag, TInt8),
        Fld("Extra",       <<"E","x","t","r","a">>,       NoTag, ExtraT),
        Fld("Extra2",      <<"E","x","t","r","a","2">>,      NoTag, Extra2T),
        Fld("BadExtra",    <<"B","a","d","E","x","t","r","a">>,    NoTag, BadExtraT) >>)

(***************************************************************************)
(* Values (reflect.Value).  A string is its runes, a slice its elements    *)
(* (nil is the empty sequence), a pointer is nil or owns its pointee, a    *)
(* map is nil or its entries, a struct is a record of its fields.          *)
(***************************************************************************)
NilPtr == [isNil |-> TRUE]
PtrTo(v) == [isNil |-> FALSE, v |-> v]
EmptyEntries == [k \in {} |-> <<>>]
NilMap == [isNil |-> TRUE, entries |-> EmptyEntries]
MakeMap == [isNil |-> FALSE, entries |-> EmptyEntries]
\* SetMapIndex into a map made anew: the other entries are gone.
SetMapIndexAnew(m, k, v) == [m EXCEPT !.entries = [x \in {k} |-> v]]

\* reflect.Value.SetMapIndex on a non-nil map
SetMapIndex(m, k, v) ==
    [m EXCEPT !.entries = [x \in DOMAIN m.entries \cup {k} |-> IF x = k THEN v ELSE m.entries[x]]]

FieldNames(t) == {t.fields[i].name : i \in 1..Len(t.fields)}
FieldOf(t, n) == t.fields[CHOOSE i \in 1..Len(t.fields) : t.fields[i].name = n]

\* reflect.Zero / reflect.New(t).Elem()
RECURSIVE Zero(_)
Zero(t) ==
    CASE t.kind = "string" -> <<>>
      [] t.kind = "bool"   -> FALSE
      [] t.kind = "slice"  -> <<>>
      [] t.kind = "ptr"    -> NilPtr
      [] t.kind = "map"    -> NilMap
      [] t.kind = "struct" /\ t.name = "big.Int" -> 0
      [] t.kind = "struct" /\ t.name # "big.Int" ->
            [n \in FieldNames(t) |-> Zero(FieldOf(t, n).type)]
      [] OTHER -> 0

(***************************************************************************)
(* Field resolution.                                                       *)
(***************************************************************************)
NoTagParsed == newTag(<<>>)
NoField == [ok |-> FALSE, idx |-> 0, tag |-> NoTagParsed]

\* reflect.Type.FieldByNameFunc, given the fields the function matches: the one
\* field that matches; several matches at the same depth cancel each other and
\* there is no match.
\* FieldByNameFunc returning the first of several matching fields.
FieldByNameFuncFirst(hits) ==
    IF hits = {} THEN 0 ELSE CHOOSE i \in hits : \A j \in hits : i <= j

FieldByNameFunc(hits) ==
    IF Cardinality(hits) = 1 THEN CHOOSE i \in hits : TRUE ELSE 0

\* Lines 36-41: the name compared with field names.
FoldName(name) ==
    (IF name # <<>> /\ name[1] \in CaselessLetters THEN <<"X">> ELSE <<>>)
    \o Replace(name, "-", "_")

\* Lines 42-52: the function handed to FieldByNameFunc, for field f with tag tg.
MatchTag(f, tg, name, n) ==
    IF tg.ident # <<>> THEN EqualFold(tg.ident, name) ELSE EqualFold(n, f.chars)
Match(f, name, n) == f.exported /\ MatchTag(f, f.parsed, name, n)

FoundField(t, i) ==
    IF i = 0 THEN NoField
    ELSE [ok |-> TRUE, idx |-> i, tag |-> t.fields[i].parsed]

FoldedField(t, name, n) ==
    FoundField(t, FieldByNameFunc({i \in 1..Len(t.fields) : Match(t.fields[i], name, n)}))

fieldFold(t, name) == FoldedField(t, name, FoldName(name))

(***************************************************************************)
(* The value parsers of package types (not part of set.go): what a         *)
(* converter hands the raw string to.  Each returns the error ("" for nil) *)
(* and the destination's value afterwards (unchanged on an error).         *)
(***************************************************************************)
NoErr == ""
errUnsupportedType == "unsupported type"
errBlankUnsupported == "blank value not supported for type"
errParse == "failed to parse"

Done(v) == [err |-> NoErr, val |-> v, mode |-> {}]
Fail(e, cur) == [err |-> e, val |-> cur, mode |-> {}]

HexDigits == <<"0","1","2","3","4","5","6","7","8","9","a","b","c","d","e","f">>
DigitValue == [c \in {HexDigits[i] : i \in 1..16} |->
                  (CHOOSE i \in 1..16 : HexDigits[i] = c) - 1]
DigitVal(c) == DigitValue[ToLower(c)]
IsDigit(c, base) == ToLower(c) \in DOMAIN DigitValue /\ DigitVal(c) < base
IsDigits(s, base) == s # <<>> /\ \A i \in 1..Len(s) : IsDigit(s[i], base)

RECURSIVE ToNum(_, _)
ToNum(s, base) ==
    IF s = <<>> THEN 0
    ELSE ToNum(SubSeq(s, 1, Len(s) - 1), base) * base + DigitVal(s[Len(s)])

\* The base a literal is written in: 0x... is hexadecimal, 0 followed by more
\* digits is octal, other digit strings are decimal.
LiteralBase(s) ==
    CASE Len(s) > 2 /\ s[1] = "0" /\ ToLower(s[2]) = "x" /\ IsDigits(SubSeq(s, 3, Len(s)), 16) -> "Hex"
      [] Len(s) > 1 /\ s[1] = "0" /\ IsDigits(SubSeq(s, 2, Len(s)), 8) -> "Oct"
      [] IsDigits(s, 10) /\ (Len(s) = 1 \/ s[1] # "0") -> "Dec"
      [] OTHER -> "Bad"

\* The number a literal of the given base denotes.
LiteralValue(s, base) ==
    CASE base = "Hex" -> ToNum(SubSeq(s, 3, Len(s)), 16)
      [] base = "Oct" -> ToNum(SubSeq(s, 2, Len(s)), 8)
      [] OTHER -> ToNum(s, 10)

\* The values the destination's width holds.
Int8Min == -128
Int8Max == 127
Fits(t, n) == t.kind = "int8" => (Int8Min <= n /\ n <= Int8Max)

\* The number n into a destination of type t holding cur.
StoreInt(t, cur, n, mode) ==
    IF Fits(t, n) THEN [err |-> NoErr, val |-> n, mode |-> mode]
    ELSE [err |-> errParse, val |-> cur, mode |-> mode]

ParseLiteral(t, cur, val, mode, base) ==
    IF base \in mode THEN StoreInt(t, cur, LiteralValue(val, base), mode)
    ELSE [err |-> errParse, val |-> cur, mode |-> mode]

\* types.ParseInt: parse val under exactly the bases of mode; a literal in
\* another base, a malformed one and one that overflows the destination fail.
ParseInt(t, cur, val, mode) == ParseLiteral(t, cur, val, mode, LiteralBase(val))

\* types.ParseBool: the strict boolean literals, in any case.
TrueLiterals  == {<<"t","r","u","e">>, <<"y","e","s">>, <<"o","n">>, <<"1">>}
FalseLiterals == {<<"f","a","l","s","e">>, <<"n","o">>, <<"o","f","f">>, <<"0">>}
ParseBool(val) ==
    CASE \E l \in TrueLiterals  : EqualFold(l, val) -> [err |-> NoErr, b |-> TRUE]
      [] \E l \in FalseLiterals : EqualFold(l, val) -> [err |-> NoErr, b |-> FALSE]
      [] OTHER -> [err |-> errParse, b |-> FALSE]

\* types.ScanFully(d, val, 'v'): one formatted scan that must consume val.
\* fmt scans the basic kinds; it cannot scan a slice, map, struct or pointer.
ScanFully(t, cur, val) ==
    CASE t.kind = "float64" /\ LiteralBase(val) = "Dec" -> Done(ToNum(val, 10))
      [] t.kind = "string" /\ val # <<>> /\ \A i \in 1..Len(val) : val[i] # " " -> Done(val)
      [] OTHER -> Fail(errParse, cur)

\* (*Level).UnmarshalText of the schema: the level names it knows.
LevelNames == {<<"l","o">>, <<"h","i">>}
UnmarshalText(cur, val) ==
    IF val \in LevelNames THEN Done(val) ELSE Fail(errParse, cur)

\* d.(encoding.TextUnmarshaler): whether the pointer to t implements it, for
\* the types that reach textUnmarshalerSetter (big.Int is typeSetter's).
ImplementsTextUnmarshaler(t) == t.name = "Level"

(***************************************************************************)
(* The setters of set.go.  A setter gets the destination's type t and its  *)
(* current value cur (what d points to), and returns the error and the     *)
(* destination's value afterwards.                                         *)
(***************************************************************************)
textUnmarshalerSetter(t, cur, blank, val, tg) ==
    IF ~ImplementsTextUnmarshaler(t) THEN Fail(errUnsupportedType, cur)
    ELSE IF blank THEN Fail(errBlankUnsupported, cur)
    ELSE UnmarshalText(cur, val)

BoolResult(r, cur) == IF r.err = NoErr THEN Done(r.b) ELSE Fail(r.err, cur)

boolSetter(t, cur, blank, val, tg) ==
    IF blank THEN Done(TRUE) ELSE BoolResult(ParseBool(val), cur)

intMode(mode) ==
    (IF ContainsAny(mode, {"d", "D"}) THEN {"Dec"} ELSE {})
    \cup (IF ContainsAny(mode, {"h", "H"}) THEN {"Hex"} ELSE {})
    \cup (IF ContainsAny(mode, {"o", "O"}) THEN {"Oct"} ELSE {})

\* Keyed by reflect.Type: the unnamed built-in types and big.Int.  uintptr is
\* not a key.
typeModes ==
    [n \in {"int", "int8", "int16", "int32", "int64",
            "uint", "uint8", "uint16", "uint32", "uint64", "big.Int"}
       |-> {"Dec", "Hex"}]

\* intModeDefault looking the type up by its kind as well: a named integer
\* type then gets the default of the built-in type of its kind.
intModeDefaultByKind(t) ==
    IF t.name \in DOMAIN typeModes \/ t.kind \in DOMAIN typeModes
    THEN {"Dec", "Hex"}
    ELSE {"Dec", "Hex", "Oct"}

intModeDefault(t) ==
    IF t.name \in DOMAIN typeModes THEN typeModes[t.name] ELSE {"Dec", "Hex", "Oct"}

\* Lines 132-135: the tag's mode, or the type's default when it has none.
ModeFor(t, m) == IF m = {} THEN intModeDefault(t) ELSE m

intSetter(t, cur, blank, val, tg) ==
    IF blank THEN Fail(errBlankUnsupported, cur)
    ELSE ParseInt(t, cur, val, ModeFor(t, intMode(tg.intMode)))

stringSetter(t, cur, blank, val, tg) ==
    IF blank THEN Fail(errBlankUnsupported, cur)
    ELSE IF t.name # "string" THEN Fail(errUnsupportedType, cur)
    ELSE Done(val)

IntKinds == {"int", "int8", "int16", "int32", "int64",
             "uint", "uint8", "uint16", "uint32", "uint64", "uintptr"}

kindSetters ==
    [k \in {"string", "bool"} \cup IntKinds |->
        IF k = "string" THEN "stringSetter"
        ELSE IF k = "bool" THEN "boolSetter" ELSE "intSetter"]

typeSetters == [n \in {"big.Int"} |-> "intSetter"]

\* Call of a setter held in one of the two maps.
CallSetter(s, t, cur, blank, val, tg) ==
    CASE s = "stringSetter" -> stringSetter(t, cur, blank, val, tg)
      [] s = "boolSetter"   -> boolSetter(t, cur, blank, val, tg)
      [] s = "intSetter"    -> intSetter(t, cur, blank, val, tg)

typeSetter(t, cur, blank, val, tg) ==
    IF t.name \notin DOMAIN typeSetters THEN Fail(errUnsupportedType, cur)
    ELSE CallSetter(typeSetters[t.name], t, cur, blank, val, tg)

kindSetter(t, cur, blank, val, tg) ==
    IF t.kind \notin DOMAIN kindSetters THEN Fail(errUnsupportedType, cur)
    ELSE CallSetter(kindSetters[t.kind], t, cur, blank, val, tg)

scanSetter(t, cur, blank, val, tg) ==
    IF blank THEN Fail(errBlankUnsupported, cur)
    ELSE ScanFully(t, cur, val)

setters == <<"typeSetter", "textUnmarshalerSetter", "kindSetter", "scanSetter">>

ApplySetter(s, t, cur, blank, val, tg) ==
    CASE s = "typeSetter"            -> typeSetter(t, cur, blank, val, tg)
      [] s = "textUnmarshalerSetter" -> textUnmarshalerSetter(t, cur, blank, val, tg)
      [] s = "kindSetter"            -> kindSetter(t, cur, blank, val, tg)
      [] s = "scanSetter"            -> scanSetter(t, cur, blank, val, tg)

\* The loop over setters in set (lines 321-335): each in turn, until one
\* succeeds or fails with an error other than errUnsupportedType.  ok is the
\* loop's flag, invoked the setters that ran, in order.
RECURSIVE RunSetters(_, _, _, _, _, _, _)
\* AfterSetter going on to the next setter after any error.
AfterSetterAnyError(r, i, invoked, t, cur, blank, val, tg) ==
    IF r.err = NoErr
    THEN [ok |-> TRUE, err |-> NoErr, val |-> r.val, invoked |-> invoked, mode |-> r.mode]
    ELSE IF i = Len(setters)
    THEN [ok |-> FALSE, err |-> r.err, val |-> cur, invoked |-> invoked, mode |-> r.mode]
    ELSE RunSetters(i + 1, invoked, t, cur, blank, val, tg)

AfterSetter(r, i, invoked, t, cur, blank, val, tg) ==
    IF r.err = NoErr
    THEN [ok |-> TRUE, err |-> NoErr, val |-> r.val, invoked |-> invoked, mode |-> r.mode]
    ELSE IF r.err # errUnsupportedType \/ i = Len(setters)
    THEN [ok |-> FALSE, err |-> r.err, val |-> cur, invoked |-> invoked, mode |-> r.mode]
    ELSE RunSetters(i + 1, invoked, t, cur, blank, val, tg)

RunSetters(i, invoked, t, cur, blank, val, tg) ==
    AfterSetter(ApplySetter(setters[i], t, cur, blank, val, tg),
                i, Append(invoked, setters[i]), t, cur, blank, val, tg)

(***************************************************************************)
(* Errors and the collector.                                               *)
(***************************************************************************)
None == [some |-> FALSE]
Some(s) == [some |-> TRUE, s |-> s]

\* type loc struct { section string; subsection, variable *string }
Loc(sect, sub, var) == [section |-> sect, subsection |-> sub, variable |-> var]
NoLoc == Loc(<<>>, None, None)

Nil == [kind |-> "nil", msg |-> "", loc |-> NoLoc]
extraData(l) == [kind |-> "extraData", msg |-> "", loc |-> l]
locErr(msg, l) == [kind |-> "locErr", msg |-> msg, loc |-> l]
PlainErr(msg) == [kind |-> "error", msg |-> msg, loc |-> NoLoc]
Panic(msg) == [kind |-> "panic", msg |-> msg, loc |-> NoLoc]

\* warnings.Collector: the function IsFatal it was made with, the warnings
\* collected so far (l) and whether a fatal error ended it (done).  The
\* package's caller makes it either with a function that calls no error fatal
\* or with one that calls every error but extraData fatal.
Policies == {"never", "unlessExtraData"}
NewCollector(isFatal) == [IsFatal |-> isFatal, l |-> <<>>, done |-> FALSE]
IsFatal(c, err) == c.IsFatal = "unlessExtraData" /\ err.kind # "extraData"
errCollectorDone == "warnings.Collector already done"

\* (*warnings.Collector).Collect: panics once done; nil is nothing; a fatal
\* error ends the collector and is returned; any other error is appended to
\* the warnings and nil is returned.
Collect(c, err) ==
    IF c.done THEN [collector |-> c, ret |-> Panic(errCollectorDone)]
    ELSE IF err = Nil THEN [collector |-> c, ret |-> Nil]
    ELSE IF IsFatal(c, err) THEN [collector |-> [c EXCEPT !.done = TRUE], ret |-> err]
    ELSE [collector |-> [c EXCEPT !.l = Append(c.l, err)], ret |-> Nil]

(***************************************************************************)
(* encoding/gob, as newValue uses it: EncodeValue of the template followed *)
(* by DecodeValue into the new, zero instance.  gob sends exported fields  *)
(* only and omits a field holding the zero value; it flattens pointers,    *)
(* so a pointer to a zero value is omitted like a nil pointer; the         *)
(* elements of a slice are all sent.  A struct type with no exported field *)
(* cannot be encoded.                                                      *)
(***************************************************************************)
GobEncodable(t) ==
    t.kind = "struct" => \E i \in 1..Len(t.fields) : t.fields[i].exported

RECURSIVE GobRoundTrip(_, _)
GobRoundTrip(t, v) ==
    CASE t.kind = "struct" /\ t.name # "big.Int" ->
            [n \in FieldNames(t) |->
                IF FieldOf(t, n).exported
                THEN GobRoundTrip(FieldOf(t, n).type, v[n])
                ELSE Zero(FieldOf(t, n).type)]
      [] t.kind = "ptr" ->
            IF v.isNil \/ v.v = Zero(t.elem) THEN NilPtr
            ELSE PtrTo(GobRoundTrip(t.elem, v.v))
      [] t.kind = "slice" ->
            [i \in 1..Len(v) |-> GobRoundTrip(t.elem, v[i])]
      [] t.kind = "map" ->
            IF v.isNil \/ DOMAIN v.entries = {} THEN NilMap
            ELSE [isNil |-> FALSE,
                  entries |-> [k \in DOMAIN v.entries |-> GobRoundTrip(t.elem, v.entries[k])]]
      [] OTHER -> v

errGobNoExported == "gob: type has no exported fields"
errGobEOF == "EOF"

\* (*gob.Encoder).EncodeValue of a value of type t: the error.
EncodeValue(t) == IF GobEncodable(t) THEN Nil ELSE PlainErr(errGobNoExported)

\* (*gob.Decoder).DecodeValue into pv of what EncodeValue wrote of v (nothing,
\* when it failed): the error and pv afterwards.
DecodeValue(t, v, pv) ==
    IF GobEncodable(t) THEN [err |-> Nil, pv |-> GobRoundTrip(t, v)]
    ELSE [err |-> PlainErr(errGobEOF), pv |-> pv]

\* Lines 210-214: c2 is Collect's result for the decoder's error.
afterDecode(c2, pv) == [pv |-> pv, err |-> c2.ret, collector |-> c2.collector]

\* Lines 206-210: c1 is Collect's result for the encoder's error, d the decoding.
afterEncode(c1, d, pv) ==
    IF c1.ret # Nil THEN [pv |-> pv, err |-> c1.ret, collector |-> c1.collector]
    ELSE afterDecode(Collect(c1.collector, d.err), d.pv)

\* Lines 203-214: the template is field dfltF of the schema object.
copyDefault(c, dfltF, vCfg, pv) ==
    afterEncode(Collect(c, EncodeValue(dfltF.type)),
                DecodeValue(dfltF.type, vCfg[dfltF.name], pv), pv)

\* newValue: a new instance of vType, filled from the field default-<sect> of
\* the schema object when there is one; dflt is fieldFold's result for it.
\* Returns the instance, the error and the collector.
newDefault(c, dflt, vCfg, vType) ==
    IF ~dflt.ok THEN [pv |-> Zero(vType), err |-> Nil, collector |-> c]
    ELSE copyDefault(c, CfgT.fields[dflt.idx], vCfg, Zero(vType))

newValue(c, sect, vCfg, vType) ==
    newDefault(c, fieldFold(CfgT, <<"d","e","f","a","u","l","t","-">> \o sect), vCfg, vType)

(***************************************************************************)
(* Multi-valued fields and extra data.                                     *)
(***************************************************************************)
isMultiVal(t) ==
    \/ t.name = "" /\ t.kind = "slice"
    \/ t.name = "" /\ t.kind = "ptr" /\ t.elem.name = "" /\ t.elem.kind = "slice"

\* The last field tagged gcfg:"extra_values" (0: none).
findExtraDataField(t) ==
    LET hits == {i \in 1..Len(t.fields) : t.fields[i].tag = ExtraValuesTag}
    IN IF hits = {} THEN 0 ELSE CHOOSE i \in hits : \A j \in hits : j <= i

errExtraType == "extra data field must be of type map[string]string or map[string][]string"

\* Returns the flag, the error and the section's value afterwards.
setExtraDataInSection(t, vSect, key, value, l) ==
    LET i == findExtraDataField(t)
        f == t.fields[i]
        m == vSect[f.name]
    IN IF i = 0 THEN [ok |-> TRUE, err |-> extraData(l), vSect |-> vSect]
       ELSE IF f.type = TMap(TString, TString)
       THEN [ok |-> FALSE, err |-> extraData(NoLoc),
             vSect |-> [vSect EXCEPT ![f.name] =
                          SetMapIndex(IF m.isNil THEN MakeMap ELSE m, key, value)]]
       ELSE IF f.type = TMap(TString, TSlice(TString))
       THEN [ok |-> FALSE, err |-> extraData(NoLoc),
             vSect |-> [vSect EXCEPT ![f.name] =
                          IF m.isNil THEN SetMapIndex(MakeMap, key, <<value>>)
                          ELSE IF key \in DOMAIN m.entries
                          THEN SetMapIndex(m, key, Append(m.entries[key], value))
                          ELSE SetMapIndex(m, key, <<value>>)]]
       ELSE [ok |-> TRUE, err |-> PlainErr(errExtraType), vSect |-> vSect]

(***************************************************************************)
(* set.                                                                    *)
(***************************************************************************)
errNotPtrStruct == "config must be a pointer to a struct"
errMapField == "map field for section must have string keys and pointer-to-struct or string values"
errSectField == "field for section must be a map or a struct"

\* What a call leaves behind: the schema object, the heap, the collector, the
\* returned error (or the panic), the setters that ran and the integer mode.
Out(c, o, coll, ret, invoked, mode) ==
    [cfg |-> c, objs |-> o, collector |-> coll, ret |-> ret,
     invoked |-> invoked, mode |-> mode]

\* Where the resolved aggregate vSect lives: in field `field` of the schema
\* object (addr = 0), or on the heap at addr (a subsection instance).
InCfg(field) == [field |-> field, addr |-> 0]
InHeap(addr) == [field |-> "", addr |-> addr]

\* Out with the aggregate at `where` replaced by v.
OutAgg(c, o, where, v, coll, ret, invoked, mode) ==
    IF where.addr = 0
    THEN Out([c EXCEPT ![where.field] = v], o, coll, ret, invoked, mode)
    ELSE Out(c, [o EXCEPT ![where.addr] = v], coll, ret, invoked, mode)

\* return c.Collect(err), r being Collect's result.
Collected(c, o, r) == Out(c, o, r.collector, r.ret, <<>>, {})

\* Lines 308-338: convert value into vVal, of type t.  An unnamed pointer is
\* dereferenced, and allocated when nil; the setters run on the pointee; only
\* on success is a newly allocated pointee stored.  val is vVal afterwards.
IsDeref(t) == t.name = "" /\ t.kind = "ptr"
DestType(t) == IF IsDeref(t) THEN t.elem ELSE t
DestValue(t, vVal) ==
    IF ~IsDeref(t) THEN vVal ELSE IF vVal.isNil THEN Zero(t.elem) ELSE vVal.v
Converted(t, vVal, r) ==
    IF ~r.ok THEN [r EXCEPT !.val = vVal]
    ELSE IF IsDeref(t) THEN [r EXCEPT !.val = PtrTo(r.val)]
    ELSE r
Convert(t, vVal, blank, value, tg) ==
    Converted(t, vVal,
              RunSetters(1, <<>>, DestType(t), DestValue(t, vVal), blank, value, tg))

\* Lines 293-298: the slice of a multi-valued field of type t holding v, the
\* pointer to it allocated when nil; and the field holding slice s again.
SliceOf(t, v) == IF t.kind # "ptr" THEN v ELSE IF v.isNil THEN Zero(t.elem) ELSE v.v
WithSlice(t, s) == IF t.kind # "ptr" THEN s ELSE PtrTo(s)
SliceType(t) == IF t.kind # "ptr" THEN t ELSE t.elem

\* Lines 303-307: vVal and its type: for a multi-valued field a new element,
\* and else the field itself.
ValType(t) == IF isMultiVal(t) THEN SliceType(t).elem ELSE t
ValOf(t, v) == IF isMultiVal(t) THEN Zero(SliceType(t).elem) ELSE v

\* Lines 336-342: the field of type t holding v after the conversion r: on
\* success a multi-valued field has r's value appended and a single-valued
\* one holds it.
\* Assigned setting a multi-valued field to the new element alone.
AssignedAlone(t, v, r) ==
    IF ~isMultiVal(t) THEN r.val
    ELSE IF r.ok THEN WithSlice(t, <<r.val>>)
    ELSE WithSlice(t, SliceOf(t, v))

Assigned(t, v, r) ==
    IF ~isMultiVal(t) THEN r.val
    ELSE IF r.ok THEN WithSlice(t, Append(SliceOf(t, v), r.val))
    ELSE WithSlice(t, SliceOf(t, v))

\* AfterConvert handing the chain's error to the collector.
AfterConvertCollected(c, o, coll, where, f, vSect, l, r) ==
    IF r.ok
    THEN OutAgg(c, o, where, [vSect EXCEPT ![f.name] = Assigned(f.type, vSect[f.name], r)],
                coll, Nil, r.invoked, r.mode)
    ELSE Collected(c, o, Collect(coll, locErr(r.err, l)))

AfterConvert(c, o, coll, where, f, vSect, l, r) ==
    OutAgg(c, o, where, [vSect EXCEPT ![f.name] = Assigned(f.type, vSect[f.name], r)],
           coll, IF r.ok THEN Nil ELSE locErr(r.err, l), r.invoked, r.mode)

\* Lines 290-342: the value into field f (tag tg) of the aggregate vSect.
setField(c, o, coll, where, f, tg, vSect, blank, value, l) ==
    IF isMultiVal(f.type) /\ blank
    THEN OutAgg(c, o, where,
                [vSect EXCEPT ![f.name] = WithSlice(f.type, Zero(SliceType(f.type)))],
                coll, Nil, <<>>, {})
    ELSE AfterConvert(c, o, coll, where, f, vSect, l,
                      Convert(ValType(f.type), ValOf(f.type, vSect[f.name]),
                              blank, value, tg))

\* AfterExtra dropping the error setExtraDataInSection returns.
AfterExtraDropped(c, o, coll, where, x) ==
    OutAgg(c, o, where, x.vSect, coll, Nil, <<>>, {})

\* Lines 284-289: no field matches; x is setExtraDataInSection's result.
AfterExtra(c, o, coll, where, x) ==
    IF x.ok
    THEN Collected(c, o, Collect(coll, x.err))
    ELSE OutAgg(c, o, where, x.vSect, coll, Nil, <<>>, {})

\* Lines 282-342: the variable name in the aggregate vSect of type t; fv is
\* fieldFold's result.
setVar(c, o, coll, where, t, vSect, fv, name, blank, value, l) ==
    IF fv.ok
    THEN setField(c, o, coll, where, t.fields[fv.idx], fv.tag, vSect, blank, value, l)
    ELSE AfterExtra(c, o, coll, where, setExtraDataInSection(t, vSect, name, value, l))

\* Lines 224-276 resolve the section and subsection.  The result is either
\* final (the call returns or panics there) or the aggregate to set the
\* variable in: where it lives, its type and value, and the location so far.
Final(out) == [final |-> TRUE, out |-> out]
Resolved(c, o, coll, where, t, vSect, l) ==
    [final |-> FALSE, out |-> Out(c, o, coll, Nil, <<>>, {}),
     where |-> where, t |-> t, vSect |-> vSect, l |-> l]

\* Lines 238-250: a map[string]string section, the map m made when nil.
\* setFlat storing the empty string as it stores any value.
setFlatEmptyToo(c, o, coll, f, m, sub, name, value) ==
    Out([c EXCEPT ![f.name] =
            IF sub # <<>> THEN SetMapIndex(m, sub \o <<" ">> \o name, value)
            ELSE SetMapIndex(m, name, value)],
        o, coll, Nil, <<>>, {})

setFlat(c, o, coll, f, m, sub, name, value) ==
    Out([c EXCEPT ![f.name] =
            IF value = <<>> THEN m
            ELSE IF sub # <<>> THEN SetMapIndex(m, sub \o <<" ">> \o name, value)
            ELSE SetMapIndex(m, name, value)],
        o, coll, Nil, <<>>, {})

\* Lines 260-270, the subsection is not in the map m: newValue's result nv is
\* stored under sub and is the aggregate, unless newValue returned an error.
created(c, o, f, m, nv, sub, l) ==
    IF nv.err # Nil
    THEN Final(Out([c EXCEPT ![f.name] = m], o, nv.collector, nv.err, <<>>, {}))
    ELSE Resolved([c EXCEPT ![f.name] = SetMapIndex(m, sub, Len(o) + 1)],
                  Append(o, nv.pv), nv.collector, InHeap(Len(o) + 1),
                  f.type.elem.elem, nv.pv, l)

\* Lines 235-270: the section field f is a map, m its value made when nil.
subsect(c, o, coll, f, m, sect, sub, name, value, l) ==
    IF f.type.key.kind = "string" /\ f.type.elem.kind = "string"
    THEN Final(setFlat(c, o, coll, f, m, sub, name, value))
    ELSE IF \/ f.type.key.kind # "string"
            \/ f.type.elem.kind # "ptr"
            \/ f.type.elem.elem.kind # "struct"
    THEN Final(Out(c, o, coll, Panic(errMapField), <<>>, {}))
    ELSE IF sub \in DOMAIN m.entries
    THEN Resolved([c EXCEPT ![f.name] = m], o, coll, InHeap(m.entries[sub]),
                  f.type.elem.elem, o[m.entries[sub]], l)
    ELSE created(c, o, f, m, newValue(coll, sect, c, f.type.elem.elem), sub, l)

\* Lines 231-276: the section resolved to field f of the schema object.
section(c, o, coll, f, sect, sub, name, value, subsectPass) ==
    IF subsectPass # (f.type.kind = "map") THEN Final(Out(c, o, coll, Nil, <<>>, {}))
    ELSE IF f.type.kind = "map"
    THEN subsect(c, o, coll, f, IF c[f.name].isNil THEN MakeMap ELSE c[f.name],
                 sect, sub, name, value, Loc(sect, Some(sub), None))
    ELSE IF f.type.kind # "struct"
    THEN Final(Out(c, o, coll, Panic(errSectField), <<>>, {}))
    ELSE IF sub # <<>>
    THEN Final(Collected(c, o, Collect(coll, extraData(Loc(sect, None, None)))))
    ELSE Resolved(c, o, coll, InCfg(f.name), f.type, c[f.name], Loc(sect, None, None))

\* Lines 220-230: cfg of shape kind; fs is fieldFold's result for the section.
resolve(kind, c, o, coll, fs, sect, sub, name, value, subsectPass) ==
    IF kind # "ptrStruct" THEN Final(Out(c, o, coll, Panic(errNotPtrStruct), <<>>, {}))
    ELSE IF ~fs.ok
    THEN Final(Collected(c, o, Collect(coll, extraData(Loc(sect, None, None)))))
    ELSE section(c, o, coll, CfgT.fields[fs.idx], sect, sub, name, value, subsectPass)

\* Lines 277-342, from the resolved aggregate a.  The empty name only creates
\* the section or subsection.
afterResolve(a, name, blank, value) ==
    IF a.final \/ name = <<>> THEN a.out
    ELSE setVar(a.out.cfg, a.out.objs, a.out.collector, a.where, a.t, a.vSect,
                fieldFold(a.t, name), name, blank, value,
                [a.l EXCEPT !.variable = Some(name)])

\* set(c, cfg, sect, sub, name, blank, value, subsectPass), cfg of shape kind
\* pointing to the schema object c, with heap o and collector coll.
set(kind, c, o, coll, sect, sub, name, blank, value, subsectPass) ==
    afterResolve(resolve(kind, c, o, coll, fieldFold(CfgT, sect), sect, sub, name,
                         value, subsectPass),
                 name, blank, value)

(***************************************************************************)
(* The state machine: a pass of set calls over one schema object.          *)
(***************************************************************************)
NoCall ==
    [sect |-> <<>>, sub |-> <<>>, name |-> <<>>, blank |-> FALSE, value |-> <<>>,
     subsectPass |-> FALSE, ret |-> Nil, invoked |-> <<>>, mode |-> {},
     silent |-> TRUE]

\* The caller hands set a pointer to a zero schema object and a new
\* collector, or (a schema-authoring error) something that is no pointer to a
\* struct.
Init ==
    /\ cfgKind \in {"ptrStruct", "struct"}
    /\ cfg = Zero(CfgT)
    /\ objs = <<>>
    /\ collector \in {NewCollector(p) : p \in Policies}
    /\ last = NoCall
    /\ panicked = FALSE
    /\ calls = 0

\* One call set(c, cfg, sect, sub, name, blank, value, subsectPass).  A panic
\* ends the pass.
Set(sect, sub, name, blank, value, subsectPass) ==
    /\ ~panicked
    /\ calls < MaxCalls
    /\ LET r == set(cfgKind, cfg, objs, collector, sect, sub, name, blank, value,
                    subsectPass)
       IN /\ cfg' = r.cfg
          /\ objs' = r.objs
          /\ collector' = r.collector
          /\ last' = [sect |-> sect, sub |-> sub, name |-> name, blank |-> blank,
                      value |-> value, subsectPass |-> subsectPass, ret |-> r.ret,
                      invoked |-> r.invoked, mode |-> r.mode,
                      silent |-> (/\ r.ret = Nil /\ r.cfg = cfg /\ r.objs = objs
                                  /\ r.collector = collector)]
          /\ panicked' = (r.ret.kind = "panic")
    /\ calls' = calls + 1
    /\ UNCHANGED cfgKind

\* A call given as a tuple of its arguments.
Call(c) == Set(c[1], c[2], c[3], c[4], c[5], c[6])

(***************************************************************************)
(* Integer fields: calls on the section nums.                              *)
(***************************************************************************)
IntCalls ==
    ({<<"n","u","m","s">>} \X {<<>>}
        \X {<<"i","8">>, <<"p","l","a","t">>, <<"u">>, <<"u","p">>, <<"b","i","g">>, <<"o","c","t","8">>, <<"p">>}
        \X {FALSE} \X {<<"1">>, <<"0","1","0">>, <<"0","x","1","f">>} \X {FALSE})
    \cup ({<<"n","u","m","s">>} \X {<<>>} \X {<<"i","8">>, <<"p">>} \X {FALSE} \X {<<"2","0","0">>} \X {FALSE})
    \cup ({<<"n","u","m","s">>} \X {<<>>} \X {<<"i","8">>, <<"u","p">>} \X {TRUE} \X {<<>>} \X {FALSE})

SpecInt == Init /\ [][\E c \in IntCalls : Call(c)]_vars

\* The field of the section nums a variable name resolves to.
NumField(name) == NumsT.fields[fieldFold(NumsT, name).idx]

\* The last call converted a value for an integer field of the section nums.
IntConverted ==
    /\ cfgKind = "ptrStruct"
    /\ last.sect = <<"n","u","m","s">>
    /\ last.name # <<>>
    /\ ~last.blank

\* C4 (as amended): the bases a non-blank value for an integer field is parsed
\* under.  A tag whose int= directive names at least one of d, h, o gives
\* exactly the bases it names.  Without one, the bases are decimal and
\* hexadecimal when the field's type is one of the built-in types int,
\* int8..int64, uint, uint8..uint64 or is big.Int, and decimal, hexadecimal
\* and octal for any other integer destination (uintptr, a named integer type).
C4_IntModes ==
    IntConverted =>
        LET f == NumField(last.name)
        IN last.mode =
             IF intMode(f.parsed.intMode) # {} THEN intMode(f.parsed.intMode)
             ELSE IF f.type.name \in {"int", "int8", "int16", "int32", "int64",
                                      "uint", "uint8", "uint16", "uint32", "uint64",
                                      "big.Int"}
             THEN {"Dec", "Hex"}
             ELSE {"Dec", "Hex", "Oct"}

\* C4, reached: an octal literal for the platform-width int field is parsed
\* under decimal and hexadecimal only, and is refused.
C4_Reached ==
    /\ IntConverted
    /\ last.name = <<"p","l","a","t">>
    /\ last.value = <<"0","1","0">>
    /\ last.mode = {"Dec", "Hex"}
    /\ last.ret.kind = "locErr"
    /\ cfg.Nums.Plat = 0

\* C4 as the specification states it: without a tag directive the bases are
\* decimal and hexadecimal for the fixed-width types int8..int64 and
\* uint8..uint64, and decimal, hexadecimal and octal for int, uint, uintptr
\* and big.Int.
C4_AsStated ==
    IntConverted =>
        LET f == NumField(last.name)
        IN /\ (intMode(f.parsed.intMode) = {}
                /\ f.type.name \in {"int8", "int16", "int32", "int64",
                                    "uint8", "uint16", "uint32", "uint64"})
              => last.mode = {"Dec", "Hex"}
           /\ (intMode(f.parsed.intMode) = {}
                /\ f.type.name \in {"int", "uint", "uintptr", "big.Int"})
              => last.mode = {"Dec", "Hex", "Oct"}
           /\ intMode(f.parsed.intMode) # {} => last.mode = intMode(f.parsed.intMode)

(***************************************************************************)
(* Multi-valued fields: calls on the section multi, on the subsections of  *)
(* sub and on their template default-sub.                                  *)
(***************************************************************************)
MultiCalls ==
    ({<<"m","u","l","t","i">>} \X {<<>>} \X {<<"v","a","l","s">>, <<"p","v","a","l","s">>} \X {FALSE} \X {<<"1">>, <<"2">>, <<"3","0","0">>} \X {FALSE})
    \cup ({<<"m","u","l","t","i">>} \X {<<>>} \X {<<"v","a","l","s">>, <<"p","v","a","l","s">>} \X {TRUE} \X {<<>>} \X {FALSE})
    \cup ({<<"s","u","b">>} \X {<<"a">>, <<"b">>} \X {<<"p","o","r","t","s">>} \X {FALSE} \X {<<"1">>, <<"3","0","0">>} \X {TRUE})
    \cup ({<<"s","u","b">>} \X {<<"a">>, <<"b">>} \X {<<"p","o","r","t","s">>} \X {TRUE} \X {<<>>} \X {TRUE})
    \cup ({<<"d","e","f","a","u","l","t","-","s","u","b">>} \X {<<>>} \X {<<"p","o","r","t","s">>} \X {FALSE} \X {<<"2">>} \X {FALSE})

SpecMulti == Init /\ [][\E c \in MultiCalls : Call(c)]_vars

\* The call l targets a multi-valued field, on the pass that matches its
\* section, and does not panic.
OnMultiValued(l) ==
    /\ l.ret.kind # "panic"
    /\ \/ l.sect = <<"m","u","l","t","i">> /\ l.name \in {<<"v","a","l","s">>, <<"p","v","a","l","s">>} /\ ~l.subsectPass
       \/ l.sect = <<"s","u","b">> /\ l.name = <<"p","o","r","t","s">> /\ l.subsectPass
       \/ l.sect = <<"d","e","f","a","u","l","t","-","s","u","b">> /\ l.name = <<"p","o","r","t","s">> /\ ~l.subsectPass

\* The elements of the multi-valued field the call l targets, in the schema
\* object c with heap o (a nil pointer to a slice has none); fresh is what a
\* subsection that does not exist yet starts with.
Elems(c, o, l, fresh) ==
    CASE l.sect = <<"m","u","l","t","i">> /\ l.name = <<"v","a","l","s">> -> c.Multi.Vals
      [] l.sect = <<"m","u","l","t","i">> /\ l.name = <<"p","v","a","l","s">> ->
            IF c.Multi.PVals.isNil THEN <<>> ELSE c.Multi.PVals.v
      [] l.sect = <<"d","e","f","a","u","l","t","-","s","u","b">> -> c.Default_Sub.Ports
      [] l.sect = <<"s","u","b">> ->
            IF l.sub \in DOMAIN c.Sub.entries THEN o[c.Sub.entries[l.sub]].Ports
            ELSE fresh

\* The int8 a value of the calls denotes.
Int8Of == (<<"1">> :> 1) @@ (<<"2">> :> 2)

\* One call on a multi-valued field that held `before`: a blank call leaves it
\* empty, a non-blank call whose conversion succeeds appends its value, one
\* whose conversion fails leaves the elements as they were.
MultiStep(l, before, after) ==
    /\ l.blank => (after = <<>> /\ l.ret = Nil)
    /\ (~l.blank /\ l.ret = Nil) =>
          (l.value \in DOMAIN Int8Of /\ after = Append(before, Int8Of[l.value]))
    /\ (~l.blank /\ l.ret # Nil) => (after = before /\ l.value \notin DOMAIN Int8Of)

\* C1 (as amended): every call on a multi-valued field, on the matching pass,
\* takes the field from the elements it held to: no elements when the call is
\* blank; the same elements followed by the call's value when the conversion
\* succeeds; the same elements when it fails.  The field of a section starts
\* empty; the field of a subsection starts with the elements its template
\* default-sub holds when the subsection is created.  So a field holds its
\* starting elements (none after a blank call) followed by the values of the
\* successful non-blank calls since, in arrival order.
C1_MultiValued ==
    [][OnMultiValued(last') =>
          MultiStep(last', Elems(cfg, objs, last', cfg.Default_Sub.Ports),
                    Elems(cfg', objs', last', <<>>))]_vars

\* C1, reached: the subsection a, made when the template held <<2>>, after two
\* successful calls ports = 1.
C1_Reached ==
    /\ OnMultiValued(last)
    /\ last.sect = <<"s","u","b">> /\ last.sub = <<"a">> /\ last.value = <<"1">>
    /\ <<"a">> \in DOMAIN cfg.Sub.entries
    /\ objs[cfg.Sub.entries[<<"a">>]].Ports = <<2, 1, 1>>
    /\ cfg.Default_Sub.Ports = <<2>>

\* C1 as the specification states it: the field holds exactly the values of
\* the successful non-blank calls since the last blank call, so N successful
\* calls give N elements: every field, a new subsection's too, starts empty.
C1_AsStated ==
    [][OnMultiValued(last') =>
          MultiStep(last', Elems(cfg, objs, last', <<>>),
                    Elems(cfg', objs', last', <<>>))]_vars

(***************************************************************************)
(* The setters chain: calls that convert a value for each kind of          *)
(* destination.                                                            *)
(***************************************************************************)
ConvCalls ==
    ({<<"n","u","m","s">>} \X {<<>>} \X {<<"b","i","g">>} \X {FALSE} \X {<<"1">>} \X {FALSE})
    \cup ({<<"n","u","m","s">>} \X {<<>>} \X {<<"b","i","g">>} \X {TRUE} \X {<<>>} \X {FALSE})
    \cup ({<<"n","u","m","s">>} \X {<<>>} \X {<<"i","8">>} \X {FALSE} \X {<<"1">>, <<"2","0","0">>} \X {FALSE})
    \cup ({<<"c","o","n","v">>} \X {<<>>} \X {<<"l","v","l">>} \X {FALSE} \X {<<"h","i">>, <<"z","z">>} \X {FALSE})
    \cup ({<<"c","o","n","v">>} \X {<<>>} \X {<<"r","a","t","i","o">>} \X {FALSE} \X {<<"3">>, <<"x">>} \X {FALSE})
    \cup ({<<"c","o","n","v">>} \X {<<>>} \X {<<"l","v","l">>, <<"r","a","t","i","o">>} \X {TRUE} \X {<<>>} \X {FALSE})
    \cup ({<<"c","o","r","e">>} \X {<<>>} \X {<<"e","d","i","t","o","r">>} \X {FALSE} \X {<<"v","i","m">>} \X {FALSE})
    \cup ({<<"c","o","r","e">>} \X {<<>>} \X {<<"f","l","a","g">>} \X {FALSE} \X {<<"m","a","y","b","e">>} \X {FALSE})
    \cup ({<<"c","o","r","e">>} \X {<<>>} \X {<<"e","d","i","t","o","r">>, <<"f","l","a","g">>} \X {TRUE} \X {<<>>} \X {FALSE})
    \cup ({<<"m","u","l","t","i">>} \X {<<>>} \X {<<"n","a","m","e","d">>} \X {FALSE} \X {<<"1">>} \X {FALSE})
    \cup ({<<"m","u","l","t","i">>} \X {<<>>} \X {<<"o","p","t">>} \X {FALSE} \X {<<"5">>, <<"2","0","0">>} \X {FALSE})
    \cup ({<<"m","u","l","t","i">>} \X {<<>>} \X {<<"p","v","a","l","s">>} \X {FALSE} \X {<<"1">>, <<"2","0","0">>} \X {FALSE})
    \cup ({<<"m","u","l","t","i">>} \X {<<>>} \X {<<"v","a","l","s">>} \X {FALSE} \X {<<"2","0","0">>} \X {FALSE})

SpecConv == Init /\ [][\E c \in ConvCalls : Call(c)]_vars

\* The converters, in the order of the chain.
Chain == <<"typeSetter", "textUnmarshalerSetter", "kindSetter", "scanSetter">>

\* The place in the chain of the first converter that does not answer
\* "unsupported type" for the destination of a call: the exact-type converter
\* for big.Int, the text-unmarshal one for Level, the kind-based one for a
\* string, bool or integer, the generic scan for a float64 and a named slice.
FirstSupporting(l) ==
    CASE l.sect = <<"n","u","m","s">> /\ l.name = <<"b","i","g">> -> 1
      [] l.sect = <<"c","o","n","v">> /\ l.name = <<"l","v","l">> -> 2
      [] l.sect = <<"c","o","n","v">> /\ l.name = <<"r","a","t","i","o">> -> 4
      [] l.sect = <<"m","u","l","t","i">> /\ l.name = <<"n","a","m","e","d">> -> 4
      [] OTHER -> 3

\* The call l reached the chain.
OnChain(l) == l.ret.kind # "panic" /\ l.sect \in {<<"n","u","m","s">>, <<"c","o","n","v">>, <<"c","o","r","e">>, <<"m","u","l","t","i">>}

\* C10 (as amended): the converters run in the order exact-type,
\* text-unmarshal, kind-based, generic scan, up to and including the first
\* that returns success or an error other than "unsupported type", and none
\* after it.  When the chain fails, the call returns the error with its
\* location and writes no value: nothing is appended to a multi-valued field
\* and a nil single-valued pointer field stays nil.  A nil pointer to a slice
\* is the exception: it is allocated before the chain runs and afterwards
\* points to an empty slice.
C10_Chain ==
    [][OnChain(last') =>
          /\ last'.invoked = SubSeq(Chain, 1, FirstSupporting(last'))
          /\ last'.ret # Nil =>
                /\ last'.ret.kind = "locErr"
                /\ objs' = objs
                /\ cfg' = IF last'.name = <<"p","v","a","l","s">> /\ cfg.Multi.PVals.isNil
                          THEN [cfg EXCEPT !.Multi.PVals = PtrTo(<<>>)]
                          ELSE cfg]_vars

\* C10, reached: the value 200 for the nil pointer-to-slice field: the chain
\* stopped at the kind-based converter's overflow error and the pointer is
\* allocated.
C10_Reached ==
    /\ OnChain(last)
    /\ last.name = <<"p","v","a","l","s">> /\ last.value = <<"2","0","0">>
    /\ last.invoked = <<"typeSetter", "textUnmarshalerSetter", "kindSetter">>
    /\ last.ret.kind = "locErr"
    /\ cfg.Multi.PVals = PtrTo(<<>>)

\* C10 as the specification states it: on any chain failure the field is not
\* written and a nil pointer field stays nil.
C10_AsStated ==
    [][OnChain(last') =>
          /\ last'.invoked = SubSeq(Chain, 1, FirstSupporting(last'))
          /\ last'.ret # Nil => (cfg' = cfg /\ objs' = objs)]_vars

(***************************************************************************)
(* Structured subsections: calls on the subsections of sub, on their       *)
(* template default-sub, and on a subsection of odd, whose template has no *)
(* exported field.                                                         *)
(***************************************************************************)
SubCalls ==
    ({<<"d","e","f","a","u","l","t","-","s","u","b">>} \X {<<>>} \X {<<"n","a","m","e">>} \X {FALSE} \X {<<"x">>} \X {FALSE})
    \cup ({<<"d","e","f","a","u","l","t","-","s","u","b">>} \X {<<>>} \X {<<"o","p","t">>} \X {FALSE} \X {<<"0">>, <<"5">>} \X {FALSE})
    \cup ({<<"d","e","f","a","u","l","t","-","s","u","b">>} \X {<<>>} \X {<<"p","o","r","t","s">>} \X {FALSE} \X {<<"1">>} \X {FALSE})
    \cup ({<<"s","u","b">>} \X {<<"a">>, <<"b">>} \X {<<>>} \X {FALSE} \X {<<>>} \X {TRUE})
    \cup ({<<"s","u","b">>} \X {<<"a">>, <<"b">>} \X {<<"n","a","m","e">>} \X {FALSE} \X {<<"y">>} \X {TRUE})
    \cup ({<<"s","u","b">>} \X {<<"a">>, <<"b">>} \X {<<"o","p","t">>} \X {FALSE} \X {<<"5">>} \X {TRUE})
    \cup ({<<"s","u","b">>} \X {<<"a">>, <<"b">>} \X {<<"p","o","r","t","s">>} \X {FALSE} \X {<<"1">>} \X {TRUE})
    \cup ({<<"o","d","d">>} \X {<<"a">>} \X {<<>>} \X {FALSE} \X {<<>>} \X {TRUE})

SpecSub == Init /\ [][\E c \in SubCalls : Call(c)]_vars

\* The section a map field of the schema object holds the subsections of.
MapSection(f) == IF f = "Sub" THEN <<"s","u","b">> ELSE <<"o","d","d">>

\* The field of SubT a variable name of the calls resolves to.
SubFieldOf(name) ==
    CASE name = <<"n","a","m","e">> -> "Name"
      [] name = <<"p","o","r","t","s">> -> "Ports"
      [] name = <<"o","p","t">> -> "Opt"
      [] OTHER -> ""

\* The call l targets the subsection k of the section sub.
OnSubsection(l, k) == l.sect = <<"s","u","b">> /\ l.sub = k /\ l.subsectPass

\* One call, seen from the map field f: the keys present keep their pointers,
\* and a key is added only by a call that references it, with a new instance.
PointersKept(f) ==
    /\ \A k \in DOMAIN cfg[f].entries :
          k \in DOMAIN cfg'[f].entries /\ cfg'[f].entries[k] = cfg[f].entries[k]
    /\ \A k \in DOMAIN cfg'[f].entries \ DOMAIN cfg[f].entries :
          /\ last'.sect = MapSection(f) /\ last'.sub = k /\ last'.subsectPass
          /\ cfg'[f].entries[k] = Len(objs) + 1
          /\ Len(objs') = Len(objs) + 1
    /\ Len(objs') >= Len(objs)

\* One call, seen from the subsection k of sub that exists: a call for another
\* subsection or section, and one with the empty name, leave its values as
\* they are; a call for the variable of one of its fields leaves its other
\* fields as they are.
ValuesKept(k) ==
    LET old == objs[cfg.Sub.entries[k]]
        new == objs'[cfg.Sub.entries[k]]
    IN IF OnSubsection(last', k) /\ last'.name # <<>>
       THEN \A g \in {"Name", "Ports", "Opt"} :
               g # SubFieldOf(last'.name) => new[g] = old[g]
       ELSE new = old

\* C9: a call on the subsection pass that references a key of the section sub
\* leaves the key in the map, the call with the empty name included; a key
\* enters a section map only through a call that references it; a key that is
\* in the map keeps its pointer for good; and the values an instance holds
\* stay, but for the field a later call for the same subsection names.
C9_Subsections ==
    [][/\ PointersKept("Sub")
       /\ PointersKept("Odd")
       /\ \A k \in DOMAIN cfg.Sub.entries : ValuesKept(k)
       /\ (last'.sect = <<"s","u","b">> /\ last'.subsectPass /\ last'.ret.kind # "panic")
             => last'.sub \in DOMAIN cfg'.Sub.entries]_vars

\* C9, reached: the subsection a, created by a call with the empty name, then
\* given name = y, still holds it after the later call opt = 5.
C9_Reached ==
    /\ calls = 3
    /\ OnSubsection(last, <<"a">>) /\ last.name = <<"o","p","t">>
    /\ DOMAIN cfg.Sub.entries = {<<"a">>}
    /\ cfg.Sub.entries[<<"a">>] = 1
    /\ objs[1] = [Name |-> <<"y">>, Ports |-> <<>>, Opt |-> PtrTo(5)]

\* C2 as the specification states it: a subsection of sub created by a call
\* (with the empty name, so that nothing else is set) holds what the template
\* default-sub holds at that time; a call for another subsection or for the
\* template leaves the subsections that exist as they are; and a call for a
\* subsection leaves the template as it is.
C2_AsStated ==
    [][/\ \A k \in DOMAIN cfg'.Sub.entries \ DOMAIN cfg.Sub.entries :
             last'.name = <<>> => objs'[cfg'.Sub.entries[k]] = cfg.Default_Sub
       /\ \A k \in DOMAIN cfg.Sub.entries :
             ~OnSubsection(last', k) =>
                 objs'[cfg'.Sub.entries[k]] = objs[cfg.Sub.entries[k]]
       /\ last'.sect = <<"s","u","b">> => cfg'.Default_Sub = cfg.Default_Sub]_vars

(***************************************************************************)
(* Unknown variables: calls whose variable matches no field, on sections   *)
(* with and without a catch-all field.                                     *)
(***************************************************************************)
UnknownCalls ==
    ({<<"c","o","r","e">>} \X {<<>>} \X {<<"b","o","g","u","s">>, <<"a","l","i","a","s">>, <<"h","i","d","d","e","n">>} \X {FALSE} \X {<<"v">>} \X {FALSE})
    \cup ({<<"c","o","r","e">>} \X {<<>>} \X {<<"e","d","i","t","o","r">>} \X {FALSE} \X {<<"v","i","m">>} \X {FALSE})
    \cup ({<<"s","u","b">>} \X {<<"a">>, <<"b">>} \X {<<"b","o","g","u","s">>} \X {FALSE} \X {<<"v">>} \X {TRUE})
    \cup ({<<"s","u","b">>} \X {<<"a">>} \X {<<"n","a","m","e">>} \X {FALSE} \X {<<"y">>} \X {TRUE})
    \cup ({<<"s","u","b">>} \X {<<"a">>} \X {<<>>} \X {FALSE} \X {<<>>} \X {TRUE})
    \cup ({<<"o","d","d">>} \X {<<"a">>} \X {<<"b","o","g","u","s">>} \X {FALSE} \X {<<"v">>} \X {TRUE})
    \cup ({<<"e","x","t","r","a">>, <<"e","x","t","r","a","2">>} \X {<<>>} \X {<<"b","o","g","u","s">>} \X {FALSE} \X {<<"v">>} \X {FALSE})
    \cup ({<<"d","e","f","a","u","l","t","-","s","u","b">>} \X {<<>>} \X {<<"n","a","m","e">>} \X {FALSE} \X {<<"x">>} \X {FALSE})

SpecUnknown == Init /\ [][\E c \in UnknownCalls : Call(c)]_vars

\* The aggregate type t has no field for the variable name and no catch-all.
UnknownIn(t, name) ==
    /\ name # <<>>
    /\ ~fieldFold(t, name).ok
    /\ \A i \in 1..Len(t.fields) : t.fields[i].tag # ExtraValuesTag

\* The map field of the schema object the section of the call l is, if any.
MapFieldOf(l) ==
    CASE l.sect = <<"s","u","b">> /\ l.subsectPass -> "Sub"
      [] l.sect = <<"o","d","d">> /\ l.subsectPass -> "Odd"
      [] OTHER -> ""

\* The call l names a variable unknown to the aggregate it resolved, which has
\* no catch-all: the plain section core, or a subsection of sub or odd that is
\* there after the call (c is the schema object after it).
UnknownVariable(l, c) ==
    \/ l.sect = <<"c","o","r","e">> /\ ~l.subsectPass /\ l.sub = <<>> /\ UnknownIn(CoreT, l.name)
    \/ MapFieldOf(l) = "Sub" /\ l.sub \in DOMAIN c.Sub.entries /\ UnknownIn(SubT, l.name)
    \/ MapFieldOf(l) = "Odd" /\ l.sub \in DOMAIN c.Odd.entries /\ UnknownIn(OddT, l.name)

\* The location of a variable-level diagnostic of the call l.
VariableLoc(l) ==
    Loc(l.sect, IF MapFieldOf(l) # "" THEN Some(l.sub) ELSE None, Some(l.name))

\* The diagnostics a call adds to a collector that held `before`.
Added(before, after) == SubSeq(after.l, Len(before.l) + 1, Len(after.l))

\* The call adds exactly one ExtraData diagnostic, the last, with location at,
\* and returns nil.
OneExtraData(at) ==
    /\ last'.ret = Nil
    /\ SubSeq(collector'.l, 1, Len(collector.l)) = collector.l
    /\ Cardinality({i \in DOMAIN Added(collector, collector') :
                       Added(collector, collector')[i].kind = "extraData"}) = 1
    /\ collector'.l[Len(collector'.l)] = extraData(at)

\* C3 (as amended): a call whose variable matches no field of the aggregate
\* it resolves, the aggregate having no catch-all field, adds exactly one
\* ExtraData diagnostic, with the section, the subsection (of a map section)
\* and the variable, and returns nil.  It writes no field: every instance
\* that existed and every field of the schema object but the section's map
\* is as before.  In a section with structured subsections the call still
\* makes the section's map when it is nil and creates the subsection it
\* references when the map does not hold it.
C3_UnknownVariable ==
    [][(cfgKind = "ptrStruct" /\ UnknownVariable(last', cfg') /\ ~collector.done) =>
          /\ OneExtraData(VariableLoc(last'))
          /\ \A a \in DOMAIN objs : objs'[a] = objs[a]
          /\ \A f \in DOMAIN cfg : f # MapFieldOf(last') => cfg'[f] = cfg[f]
          /\ MapFieldOf(last') # "" =>
                LET m == cfg[MapFieldOf(last')]
                    m2 == cfg'[MapFieldOf(last')]
                IN /\ ~m2.isNil
                   /\ DOMAIN m2.entries = DOMAIN m.entries \cup {last'.sub}
                   /\ \A k \in DOMAIN m.entries : m2.entries[k] = m.entries[k]
                   /\ Len(objs') = Cardinality(DOMAIN cfg'.Sub.entries)
                                     + Cardinality(DOMAIN cfg'.Odd.entries)]_vars

\* C3, reached: bogus = v for the subsection a of sub on a new schema object:
\* one ExtraData diagnostic, and the subsection a is there.
C3_Reached ==
    /\ last.sect = <<"s","u","b">> /\ last.sub = <<"a">> /\ last.name = <<"b","o","g","u","s">>
    /\ last.ret = Nil
    /\ collector.l = <<extraData(Loc(<<"s","u","b">>, Some(<<"a">>), Some(<<"b","o","g","u","s">>)))>>
    /\ DOMAIN cfg.Sub.entries = {<<"a">>}
    /\ objs = <<Zero(SubT)>>

\* C3 as the specification states it: one ExtraData diagnostic, and the
\* schema object is left as it was: no field written, no map and no
\* subsection instance created.
C3_AsStated ==
    [][(cfgKind = "ptrStruct" /\ UnknownVariable(last', cfg') /\ ~collector.done) =>
          /\ OneExtraData(VariableLoc(last'))
          /\ cfg' = cfg
          /\ objs' = objs]_vars

(***************************************************************************)
(* The two passes: every tuple on the subsection pass and on the other.    *)
(***************************************************************************)
PassCalls ==
    ({<<"c","o","r","e">>} \X {<<>>, <<"a">>} \X {<<"e","d","i","t","o","r">>} \X {FALSE} \X {<<"v","i","m">>} \X BOOLEAN)
    \cup ({<<"s","u","b">>} \X {<<"a">>} \X {<<"n","a","m","e">>} \X {FALSE} \X {<<"y">>} \X BOOLEAN)
    \cup ({<<"f","l","a","t">>} \X {<<>>} \X {<<"k">>} \X {FALSE} \X {<<"v">>} \X BOOLEAN)
    \cup ({<<"m","u","l","t","i">>} \X {<<>>} \X {<<"v","a","l","s">>} \X {TRUE} \X {<<>>} \X BOOLEAN)
    \cup ({<<"n","o","s","u","c","h">>} \X {<<>>} \X {<<"x">>} \X {FALSE} \X {<<"1">>} \X BOOLEAN)

SpecPass == Init /\ [][\E c \in PassCalls : Call(c)]_vars

\* The calls l1 and l2 are the two calls of one tuple, one on each pass.
TwoPasses(l1, l2) ==
    /\ l1.sect = l2.sect /\ l1.sub = l2.sub /\ l1.name = l2.name
    /\ l1.blank = l2.blank /\ l1.value = l2.value
    /\ l1.subsectPass # l2.subsectPass

\* C5 as the specification states it: a call whose pass does not match the
\* shape of the field its section names (a map on the subsection pass, a plain
\* struct on the other) is silent: it returns nil and changes neither the
\* schema object nor the collector; and of the two calls of any tuple, made
\* one after the other, one is silent.
C5_AsStated ==
    [][/\ (/\ cfgKind = "ptrStruct"
           /\ fieldFold(CfgT, last'.sect).ok
           /\ last'.subsectPass #
                 (CfgT.fields[fieldFold(CfgT, last'.sect).idx].type.kind = "map"))
          => last'.silent
       /\ (cfgKind = "ptrStruct" /\ calls > 0 /\ TwoPasses(last, last'))
          => (last.silent \/ last'.silent)]_vars

(***************************************************************************)
(* Schema errors: calls on a map section of the wrong shape, on a section  *)
(* that is neither map nor struct, on a section whose catch-all has the    *)
(* wrong type, and on a name two fields match.                             *)
(***************************************************************************)
SchemaCalls ==
    ({<<"b","a","d","m","a","p">>} \X {<<"a">>} \X {<<"x">>} \X {FALSE} \X {<<"1">>} \X BOOLEAN)
    \cup ({<<"s","c","a","l","a","r">>} \X {<<>>} \X {<<"x">>} \X {FALSE} \X {<<"1">>} \X BOOLEAN)
    \cup ({<<"b","a","d","e","x","t","r","a">>} \X {<<>>} \X {<<"b","o","g","u","s">>} \X {FALSE} \X {<<"v">>} \X {FALSE})
    \cup ({<<"c","o","r","e">>} \X {<<>>} \X {<<"a","l","i","a","s">>} \X {FALSE} \X {<<"z">>} \X {FALSE})
    \cup ({<<"c","o","r","e">>} \X {<<>>} \X {<<"e","d","i","t","o","r">>} \X {FALSE} \X {<<"v","i","m">>, <<"v","i">>} \X {FALSE})
    \cup ({<<"e","x","t","r","a">>} \X {<<>>} \X {<<"b","o","g","u","s">>} \X {FALSE} \X {<<"v">>, <<"w">>} \X {FALSE})
    \cup ({<<"s","u","b">>} \X {<<"a">>, <<"b">>} \X {<<"n","a","m","e">>} \X {FALSE} \X {<<"y">>} \X {TRUE})

SpecSchema == Init /\ [][\E c \in SchemaCalls : Call(c)]_vars

\* The call panics with msg, having changed nothing.
PanicsWith(msg) ==
    /\ last'.ret = Panic(msg)
    /\ cfg' = cfg /\ objs' = objs /\ collector' = collector

\* The call panics.
Panics == last'.ret.kind = "panic"

\* The cases of C6 that do panic: cfg is no pointer to a struct; the section
\* is a map that holds neither strings nor pointers to structs; and the
\* section is neither a map nor a struct.
SchemaPanics ==
    /\ cfgKind # "ptrStruct" => PanicsWith(errNotPtrStruct)
    /\ (cfgKind = "ptrStruct" /\ last'.sect = <<"b","a","d","m","a","p">> /\ last'.subsectPass)
          => PanicsWith(errMapField)
    /\ (cfgKind = "ptrStruct" /\ last'.sect = <<"s","c","a","l","a","r">> /\ ~last'.subsectPass)
          => PanicsWith(errSectField)

\* The call reaches the variable of a plain section with a working collector.
OnPlain(sect) ==
    /\ cfgKind = "ptrStruct" /\ ~collector.done
    /\ last'.sect = sect /\ ~last'.subsectPass /\ last'.name # <<>>

ErrCalls ==
    ({<<"n","o","s","u","c","h">>} \X {<<>>} \X {<<"x">>} \X {FALSE} \X {<<"1">>} \X {FALSE})
    \cup ({<<"c","o","r","e">>} \X {<<>>} \X {<<"b","o","g","u","s">>} \X {FALSE} \X {<<"v">>} \X {FALSE})
    \cup ({<<"c","o","r","e">>} \X {<<"a">>} \X {<<"e","d","i","t","o","r">>} \X {FALSE} \X {<<"v","i","m">>} \X {FALSE})
    \cup ({<<"s","u","b">>} \X {<<"a">>} \X {<<"b","o","g","u","s">>} \X {FALSE} \X {<<"v">>} \X {TRUE})
    \cup ({<<"n","u","m","s">>} \X {<<>>} \X {<<"i","8">>} \X {FALSE} \X {<<"1">>, <<"2","0","0">>, <<"0","1","0">>} \X {FALSE})
    \cup ({<<"n","u","m","s">>} \X {<<>>} \X {<<"i","8">>} \X {TRUE} \X {<<>>} \X {FALSE})
    \cup ({<<"c","o","r","e">>} \X {<<>>} \X {<<"e","d","i","t","o","r">>} \X {FALSE} \X {<<"v","i","m">>} \X {FALSE})
    \cup ({<<"c","o","r","e">>} \X {<<>>} \X {<<"f","l","a","g">>} \X {FALSE} \X {<<"m","a","y","b","e">>} \X {FALSE})
    \cup ({<<"c","o","r","e">>} \X {<<>>} \X {<<"e","d","i","t","o","r">>, <<"f","l","a","g">>} \X {TRUE} \X {<<>>} \X {FALSE})
    \cup ({<<"c","o","n","v">>} \X {<<>>} \X {<<"l","v","l">>} \X {FALSE} \X {<<"z","z">>} \X {FALSE})

SpecErr == Init /\ [][\E c \in ErrCalls : Call(c)]_vars

\* The call l names a section, a subsection or a variable the schema does not
\* have.
Unrecognized(l) ==
    \/ l.sect = <<"n","o","s","u","c","h">>
    \/ l.sect = <<"c","o","r","e">> /\ l.sub # <<>>
    \/ l.name = <<"b","o","g","u","s">>

\* The location of the diagnostic of an unrecognized call: the section alone
\* for an unknown section and for a subsection of a plain section, and the
\* section, the subsection of a map section and the variable for a variable.
UnrecognizedAt(l) ==
    CASE l.sect = <<"n","o","s","u","c","h">> -> Loc(l.sect, None, None)
      [] l.sect = <<"c","o","r","e">> /\ l.sub # <<>> -> Loc(l.sect, None, None)
      [] l.sect = <<"s","u","b">> -> Loc(l.sect, Some(l.sub), Some(l.name))
      [] OTHER -> Loc(l.sect, None, Some(l.name))

\* The value of the call l cannot be converted: an overflow of int8, an octal
\* literal for int8, a word that is no boolean, a level that is not known, and
\* a blank value for an integer or a string.
Unconvertible(l) ==
    /\ ~Unrecognized(l)
    /\ \/ ~l.blank /\ l.value \in {<<"2","0","0">>, <<"0","1","0">>, <<"m","a","y","b","e">>, <<"z","z">>}
       \/ l.blank /\ l.name \in {<<"i","8">>, <<"e","d","i","t","o","r">>}

\* The message of the error of an unconvertible call.
UnconvertibleMsg(l) == IF l.blank THEN errBlankUnsupported ELSE errParse

FlatCalls ==
    ({<<"f","l","a","t">>} \X {<<>>, <<"a">>} \X {<<"k">>, <<"j">>} \X {FALSE} \X {<<"v">>, <<"w">>, <<>>} \X {TRUE})
    \cup ({<<"f","l","a","t">>} \X {<<>>} \X {<<"k">>} \X {TRUE} \X {<<>>} \X {TRUE})
    \cup ({<<"f","l","a","t">>} \X {<<>>} \X {<<"k">>} \X {FALSE} \X {<<"v">>} \X {FALSE})

SpecFlat == Init /\ [][\E c \in FlatCalls : Call(c)]_vars

\* The call l reaches the flat section on the subsection pass.
OnFlat(l) == cfgKind = "ptrStruct" /\ l.sect = <<"f","l","a","t">> /\ l.subsectPass

\* The key of the call l: the name, after the subsection and a space when
\* there is a subsection.
FlatKey(l) == IF l.sub = <<>> THEN l.name ELSE l.sub \o <<" ">> \o l.name

\* The call touches nothing but the map of flat, produces no diagnostic,
\* returns nil and runs no converter.
OnlyFlat ==
    /\ \A f \in DOMAIN cfg : f # "Flat" => cfg'[f] = cfg[f]
    /\ ~cfg'.Flat.isNil
    /\ objs' = objs
    /\ collector' = collector
    /\ last'.ret = Nil
    /\ last'.invoked = <<>>

\* C8 (as amended): a call on the subsection pass whose section is a
\* map[string]string field makes the map when it is nil and, when the value
\* is not the empty string, stores the value under the name, or under
\* "<subsection> <name>" when the subsection is not empty, leaving the other
\* entries as they are.  When the value is the empty string it stores
\* nothing: the entries are as before.  Either way there is no diagnostic,
\* nil is returned and no converter runs.
C8_Flat ==
    [][OnFlat(last') =>
          /\ OnlyFlat
          /\ last'.value # <<>> =>
                /\ DOMAIN cfg'.Flat.entries = DOMAIN cfg.Flat.entries \cup {FlatKey(last')}
                /\ cfg'.Flat.entries[FlatKey(last')] = last'.value
                /\ \A x \in DOMAIN cfg.Flat.entries \ {FlatKey(last')} :
                      cfg'.Flat.entries[x] = cfg.Flat.entries[x]
          /\ last'.value = <<>> => cfg'.Flat.entries = cfg.Flat.entries]_vars

\* C8, reached: after k = v for the subsection a, the call with the empty
\* string for the same key: the map still holds v under "a k".
C8_Reached ==
    /\ calls = 2
    /\ OnFlat(last)
    /\ last.sub = <<"a">> /\ last.name = <<"k">> /\ last.value = <<>> /\ ~last.blank
    /\ DOMAIN cfg.Flat.entries = {<<"a"," ","k">>}
    /\ cfg.Flat.entries[<<"a"," ","k">>] = <<"v">>

\* C8 as the specification states it: for every value, the empty string
\* included, the map holds the value under the key after the call.
C8_AsStated ==
    [][OnFlat(last') =>
          /\ OnlyFlat
          /\ DOMAIN cfg'.Flat.entries = DOMAIN cfg.Flat.entries \cup {FlatKey(last')}
          /\ cfg'.Flat.entries[FlatKey(last')] = last'.value
          /\ \A x \in DOMAIN cfg.Flat.entries \ {FlatKey(last')} :
                cfg'.Flat.entries[x] = cfg.Flat.entries[x]]_vars

====
